---------------------------- MODULE Spec2Model ----------------------------
(***************************************************************************)
(* Model of the synthetic-data experiment scripts syn-entner.py and        *)
(* synthetic_high_dimension.py: the parameter sampler (get_u, get_theta),  *)
(* the structural-causal-model simulator (get_data), the dataset builder   *)
(* (get_train_test_data) and the trial runner (main).                      *)
(*                                                                         *)
(* Numbers.  Every real quantity is a fixed-point integer counted in       *)
(* tenths (1.0 is 10); a product of two such numbers is divided by 10.     *)
(* Probabilities are counted in 1/1024.  The global numpy random stream    *)
(* is a counter of period Period; the raw value at a position is a fixed   *)
(* function of the position, and every draw advances the position by one.  *)
(***************************************************************************)
EXTENDS Integers, Sequences, FiniteSets, TLC

VARIABLES
  script,               \* which of the two scripts runs
  number_repetitions,   \* args.nr
  number_observations,  \* args.no
  use_t_in_e,           \* args.use_t_in_e
  number_environments,  \* args.ne
  rng,                  \* state of the global random stream (np.random)
  pc,                   \* position of main
  error,                \* the call that raised, "" while none has
  r, i,                 \* loop indices of main (i counts from 1)
  w,                    \* next result-matrix assignment of the cell body
  u,                    \* latents of the current cell
  theta,                \* coefficients of the current cell
  data,                 \* get_data's return value for the current cell
  tables,               \* get_train_test_data's return value
  results,              \* the result matrices
  files,                \* output files written
  seed,                 \* history: the stream's state when main started
  entry,                \* history: the stream's state at the current call
  visited,              \* history: cells for which the body was entered
  log,                  \* history: per cell, what happened in it
  calls                 \* history: get_train_test_data calls that returned

vars == <<script, number_repetitions, number_observations, use_t_in_e,
          number_environments, rng, pc, error, r, i, w, u, theta, data, tables,
          results, files, seed, entry, visited, log, calls>>

---------------------------------------------------------------------------
(* Bounds of the model *)

MaxReps == 2
MaxObs == 6
MaxEnv == 4
MaxSeed == 3
GridLen == 2
Period == 32

---------------------------------------------------------------------------
(* The two scripts *)

Scripts == {"syn-entner", "synthetic_high_dimension"}

\* main's number_dimensions_list.  The sources iterate [2,7,12] and
\* [12,22,32]; the grid is scaled to the dimensions 1..GridLen.
number_dimensions_list == [j \in 1..GridLen |-> j]

\* The result matrices main allocates, in the order the cell body assigns them.
ResultMatrices(s) ==
  IF s = "syn-entner"
  THEN <<"pvalue_empty", "pvalue_x3", "pvalue_x2x3">>
  ELSE <<"effect_true", "effect_oracle", "effect_baseline",
         "effect_irm_control", "effect_irm_treatment">>

\* The files the np.savetxt calls after the loop write.
SavedMatrices(s) ==
  IF s = "syn-entner"
  THEN {"pvalue_empty", "pvalue_x3", "pvalue_x2x3"}
  ELSE {"effect_true", "effect_baseline", "effect_irm_control",
        "effect_irm_treatment"}

---------------------------------------------------------------------------
(* Matrices: a matrix is a sequence of rows, a row a sequence of numbers *)

None == <<>>

Rows(m) == Len(m)
Cols(m) == IF Len(m) = 0 THEN 0 ELSE Len(m[1])

RECURSIVE DotCell(_, _, _, _, _)
DotCell(a, b, row, col, k) ==
  IF k = 0 THEN 0 ELSE a[row][k] * b[k][col] + DotCell(a, b, row, col, k - 1)

\* np.dot raises unless the inner dimensions agree
DotOK(a, b) == Cols(a) = Rows(b)

\* np.dot(a, b) in fixed point
Dot(a, b) ==
  [row \in 1..Rows(a) |->
     [col \in 1..Cols(b) |-> DotCell(a, b, row, col, Rows(b)) \div 10]]

\* np.concatenate((a, b), axis=1)
ConcatCols(a, b) == [row \in 1..Rows(a) |-> a[row] \o b[row]]

\* a + b, a - b elementwise
MatAdd(a, b) ==
  [row \in 1..Rows(a) |-> [col \in 1..Cols(a) |-> a[row][col] + b[row][col]]]
MatSub(a, b) ==
  [row \in 1..Rows(a) |-> [col \in 1..Cols(a) |-> a[row][col] - b[row][col]]]

\* np.zeros((n,1)), np.ones((n,1))
Filled(n, v) == [row \in 1..n |-> <<v>>]

RECURSIVE ColSum(_, _, _)
ColSum(m, col, k) == IF k = 0 THEN 0 ELSE m[k][col] + ColSum(m, col, k - 1)

\* np.mean(m, axis=0): one mean per column
ColMean(m, col) == ColSum(m, col, Rows(m)) \div Rows(m)

---------------------------------------------------------------------------
(* The global random stream *)

\* the state after k more draws
At(s, k) == (s + k) % Period

\* the raw value the stream yields in state s, in 0..63
Raw(s) == ((s * 7 + 3) * (s + 11) + (s \div 3)) % 64

\* np.random.uniform(1.0, 2.0): low + (high - low) * U
Uniform(s) == 10 + (Raw(s) % 11)

\* np.random.uniform(-1.0, -2.0): low = -1.0, high = -2.0
UniformNeg(s) == (0 - 10) - (Raw(s) % 11)

\* np.random.normal(0, 1)
Normal(s) == (Raw(s) % 41) - 20

\* a uniform sample of [0,1) in 1/1024
Sample(s) == (Raw(s) * 1024) \div 64

UniformMatrix(s, n, m) ==
  [row \in 1..n |-> [col \in 1..m |-> Uniform(At(s, (row - 1) * m + col - 1))]]

UniformNegMatrix(s, n, m) ==
  [row \in 1..n |-> [col \in 1..m |-> UniformNeg(At(s, (row - 1) * m + col - 1))]]

\* 0.1 * np.random.normal(0, 1, (n, m))
NoiseMatrix(s, n, m) ==
  [row \in 1..n |->
     [col \in 1..m |-> (1 * Normal(At(s, (row - 1) * m + col - 1))) \div 10]]

---------------------------------------------------------------------------
(* Parameter sampler *)

\* the draws get_u, get_theta and get_data consume
get_u_draws(n, d) == n + 3 * n * d
get_theta_draws(d, use_t) ==
  (d + 1) + (2 * d + 1) * d + 2 * d * d + (2 * d + 1) + 2
  + (IF use_t = 0 THEN 2 ELSE 4)
get_data_draws(n, d) == n + 2 * n * d + 3 * n

\* get_u: the four latent matrices and the number of draws consumed
get_u(s, n, d) ==
  [u1 |-> UniformMatrix(s, n, 1),
   u2 |-> UniformMatrix(At(s, n), n, d),
   u3 |-> UniformMatrix(At(s, n + n * d), n, d),
   u4 |-> UniformMatrix(At(s, n + 2 * n * d), n, d),
   draws |-> get_u_draws(n, d)]

\* theta6: one row (x1 only) or two rows (x1 and t); always three columns
theta6_of(s, use_t) ==
  LET rows == IF use_t = 0 THEN 1 ELSE 2
      a == UniformMatrix(s, rows, 1)
      z == Filled(rows, 0)
      b == UniformNegMatrix(At(s, rows), rows, 1)
  IN  ConcatCols(ConcatCols(a, z), b)

\* get_theta: number_environments is a parameter the body never reads
get_theta(s, d, use_t, k) ==
  LET o2 == d + 1
      o3 == o2 + (2 * d + 1) * d
      o4 == o3 + 2 * d * d
      o5 == o4 + 2 * d + 1
      o6 == o5 + 2
  IN  [theta1 |-> UniformMatrix(s, d + 1, 1),
       theta2 |-> UniformMatrix(At(s, o2), 2 * d + 1, d),
       theta3 |-> UniformMatrix(At(s, o3), 2 * d, d),
       theta4 |-> UniformMatrix(At(s, o4), 2 * d + 1, 1),
       theta5 |-> UniformMatrix(At(s, o5), 2, 1),
       theta6 |-> theta6_of(At(s, o6), use_t),
       draws |-> get_theta_draws(d, use_t)]

---------------------------------------------------------------------------
(* Link functions, in fixed point *)

RECURSIVE Pow2(_)
Pow2(k) == IF k = 0 THEN 1 ELSE 2 * Pow2(k - 1)

\* exp(-x) for x >= 0 in tenths, in 1/1024: halves every 0.7, underflows to 0
ExpNeg(x) == IF x \div 7 > 10 THEN 0 ELSE 1024 \div Pow2(x \div 7)

\* scipy.special.expit(v) = 1 / (1 + exp(-v)), in 1/1024
expit(v) ==
  IF v >= 0
  THEN (1024 * 1024) \div (1024 + ExpNeg(v))
  ELSE (1024 * ExpNeg(0 - v)) \div (1024 + ExpNeg(0 - v))

RECURSIVE SeqSum(_, _)
SeqSum(q, k) == IF k = 0 THEN 0 ELSE q[k] + SeqSum(q, k - 1)

RECURSIVE SeqMax(_, _)
SeqMax(q, k) ==
  IF k = 1 THEN q[1]
  ELSE LET m == SeqMax(q, k - 1) IN IF q[k] > m THEN q[k] ELSE m

\* scipy.special.softmax(m, axis=1): each row becomes a probability vector
\* with as many entries as the row has
softmax(m) ==
  [row \in 1..Rows(m) |->
     LET top == SeqMax(m[row], Len(m[row]))
         wt == [col \in 1..Len(m[row]) |-> ExpNeg(top - m[row][col])]
         tot == SeqSum(wt, Len(wt))
     IN  [col \in 1..Len(wt) |-> (wt[col] * 1024) \div tot]]

\* m - np.mean(m, axis=0)
CenterCols(m) ==
  [row \in 1..Rows(m) |->
     [col \in 1..Cols(m) |-> m[row][col] - ColMean(m, col)]]

---------------------------------------------------------------------------
(* Structural causal model simulator: get_data *)

\* x1, x2, x3; the noise of x1 is drawn first, then that of x2, then x3's
covariates(s, uu, th, n, d) ==
  LET x1 == MatAdd(Dot(ConcatCols(uu.u1, uu.u2), th.theta1),
                   NoiseMatrix(s, n, 1))
      x2 == MatAdd(Dot(ConcatCols(ConcatCols(x1, uu.u2), uu.u3), th.theta2),
                   NoiseMatrix(At(s, n), n, d))
      x3 == MatAdd(Dot(ConcatCols(uu.u3, uu.u4), th.theta3),
                   NoiseMatrix(At(s, n + n * d), n, d))
  IN  [x1 |-> x1, x2 |-> x2, x3 |-> x3, draws |-> n + 2 * n * d]

\* two trials counted instead of one: binomial(2, p)
binomial_two_trials(s, p) ==
  (IF Sample(s) < p THEN 1 ELSE 0) + (IF Sample(At(s, 1)) < p THEN 1 ELSE 0)

\* np.random.binomial(1, p) for one entry, from one uniform sample
binomial(s, p) == IF Sample(s) < p THEN 1 ELSE 0

\* t = binomial(1, expit(z - np.mean(z))), z = [u1, x1] . theta5
treatment(s, u1, x1, theta5, n) ==
  LET z == Dot(ConcatCols(u1, x1), theta5)
      mean == ColMean(z, 1)
  IN  [row \in 1..n |-> <<binomial(At(s, row - 1), expit(z[row][1] - mean))>>]

\* t as a column of the float matrix [x2, u4, t]
AsFloat(t) == [row \in 1..Rows(t) |-> <<10 * t[row][1]>>]

\* the input of the environment softmax: x1, or x1 and t
env_input(x1, t, use_t) == IF use_t = 0 THEN x1 ELSE ConcatCols(x1, AsFloat(t))

probabilites(x1, t, theta6, use_t) ==
  softmax(CenterCols(Dot(env_input(x1, t, use_t), theta6)))

RECURSIVE CdfCount(_, _, _, _)
\* how many entries of the cumulative sum of p, normalised by its last
\* entry, are <= the sample (searchsorted, side = right)
CdfCount(p, k, acc, target) ==
  IF k > Len(p) THEN 0
  ELSE (IF (acc + p[k]) * 1024 <= target THEN 1 ELSE 0)
       + CdfCount(p, k + 1, acc + p[k], target)

\* np.random.choice raises ValueError unless a and p have the same size
choice_ok(k, p) == k >= 1 /\ Len(p) = k

\* the labels counted from 1 instead of 0
arange_from_one(k) == [j \in 1..k |-> j]

\* np.arange(k)
arange(k) == [j \in 1..k |-> j - 1]

\* np.random.choice(np.arange(k), p = p): the entry of arange(k) at the
\* index the sample falls on
choice(s, k, p) ==
  arange(k)[1 + CdfCount(p, 1, 0, Sample(s) * SeqSum(p, Len(p)))]

\* the loop over the rows of probabilites, one draw per row
environments(s, probs, k, n) ==
  [row \in 1..n |-> <<choice(At(s, row - 1), k, probs[row])>>]

\* y_1 with a noise matrix of its own, drawn after the shared one
outcomes_fresh_noise(s, x2, u4, t, theta4, n) ==
  LET noise == NoiseMatrix(s, n, 1)
      noise_1 == NoiseMatrix(At(s, n), n, 1)
      both == ConcatCols(x2, u4)
  IN  [y   |-> MatAdd(Dot(ConcatCols(both, AsFloat(t)), theta4), noise),
       y_0 |-> MatAdd(Dot(ConcatCols(both, Filled(n, 0)), theta4), noise),
       y_1 |-> MatAdd(Dot(ConcatCols(both, Filled(n, 10)), theta4), noise_1)]

\* y, y_0, y_1: one noise matrix, drawn once, is added to all three
outcomes(s, x2, u4, t, theta4, n) ==
  LET noise == NoiseMatrix(s, n, 1)
      both == ConcatCols(x2, u4)
  IN  [y   |-> MatAdd(Dot(ConcatCols(both, AsFloat(t)), theta4), noise),
       y_0 |-> MatAdd(Dot(ConcatCols(both, Filled(n, 0)), theta4), noise),
       y_1 |-> MatAdd(Dot(ConcatCols(both, Filled(n, 10)), theta4), noise)]

\* the matrix products of get_data all have matching inner dimensions
products_ok(uu, th, n, d, use_t) ==
  /\ Cols(uu.u1) + Cols(uu.u2) = Rows(th.theta1)
  /\ Cols(th.theta1) + Cols(uu.u2) + Cols(uu.u3) = Rows(th.theta2)
  /\ Cols(uu.u3) + Cols(uu.u4) = Rows(th.theta3)
  /\ Cols(uu.u1) + Cols(th.theta1) = Rows(th.theta5)
  /\ (IF use_t = 0 THEN Cols(th.theta1) ELSE Cols(th.theta1) + 1)
        = Rows(th.theta6)
  /\ Cols(th.theta2) + Cols(uu.u4) + 1 = Rows(th.theta4)

\* get_data returns iff no product and no categorical draw raises; the
\* probability vector of a row has as many entries as theta6 has columns
get_data_ok(uu, th, n, d, use_t, k) ==
  /\ products_ok(uu, th, n, d, use_t)
  /\ choice_ok(k, th.theta6[1])

get_data(s, uu, th, n, d, use_t, k) ==
  LET x == covariates(s, uu, th, n, d)
      t == treatment(At(s, x.draws), uu.u1, x.x1, th.theta5, n)
      probs == probabilites(x.x1, t, th.theta6, use_t)
      e == environments(At(s, x.draws + n), probs, k, n)
      o == outcomes(At(s, x.draws + 2 * n), x.x2, uu.u4, t, th.theta4, n)
  IN  [x1 |-> x.x1, x2 |-> x.x2, x3 |-> x.x3, t |-> t, e |-> e,
       y |-> o.y, y_0 |-> o.y_0, y_1 |-> o.y_1, draws |-> get_data_draws(n, d)]

---------------------------------------------------------------------------
(* Dataset builder: get_train_test_data *)

\* np.mean(y_1 - y_0), rounded to 6 decimals (finer than a tenth)
true_ate_of(y_0, y_1) == ColMean(MatSub(y_1, y_0), 1)

\* test_size = 0.2: n_test = ceil(0.2 * n), n_train = n - n_test
n_test_of(n) == (n + 4) \div 5
n_train_of(n) == n - n_test_of(n)

\* train_test_split raises ValueError when the train part would be empty
split_ok(n) == n_train_of(n) >= 1

RECURSIVE Shuffle(_, _, _)
\* the stream's permutation: for k = n down to 2, swap entry k with an entry
\* drawn from 1..k
Shuffle(x, s, k) ==
  IF k <= 1 THEN x
  ELSE LET j == 1 + (Raw(s) % k)
           y == [x EXCEPT ![k] = x[j], ![j] = x[k]]
       IN  Shuffle(y, At(s, 1), k - 1)

\* the permutation drawn from a stream of its own, seeded with the repetition
permutation_by_repetition(s, n) == Shuffle([j \in 1..n |-> j], r, n)

\* rng.permutation(n): row numbers 1..n in the drawn order
permutation(s, n) == Shuffle([j \in 1..n |-> j], s, n)

\* ind_test = permutation[:n_test]
ind_test_of(perm, n) == SubSeq(perm, 1, n_test_of(n))

\* the train slice started one entry early
ind_train_overlapping(perm, n) == SubSeq(perm, n_test_of(n), n_test_of(n) + n_train_of(n))

\* ind_train = permutation[n_test:n_test + n_train]
ind_train_of(perm, n) == SubSeq(perm, n_test_of(n) + 1, n_test_of(n) + n_train_of(n))

\* a[ind] for a matrix a
Take(a, ind) == [j \in 1..Len(ind) |-> a[ind[j]]]

\* a[:,0] as a Series
Column0(a) == [j \in 1..Len(a) |-> a[j][1]]

Rep(v, k) == [j \in 1..k |-> v]

\* the group boundaries one column late
group_labels_shifted(d) == Rep("x1", 1) \o Rep("x2", d + 1) \o Rep("x3", d - 1)

\* the first level of the column MultiIndex
group_labels(d) == Rep("x1", 1) \o Rep("x2", d) \o Rep("x3", d)

\* the MultiIndex: (group, str(column number)) per feature column
columns_of(d) ==
  [j \in 1..(2 * d + 1) |-> <<group_labels(d)[j], ToString(j - 1)>>]

\* lines 87-105 on get_data's return value
split_tables(s, dt, n, d) ==
  LET perm == permutation(s, n)
      tr == ind_train_of(perm, n)
      te == ind_test_of(perm, n)
      features == ConcatCols(ConcatCols(dt.x1, dt.x2), dt.x3)
  IN  [x_train |-> Take(features, tr), x_train_columns |-> columns_of(d),
       t_train |-> Column0(Take(dt.t, tr)),
       y_train |-> Column0(Take(dt.y, tr)),
       e_train |-> Column0(Take(dt.e, tr)),
       y_0_train |-> Column0(Take(dt.y_0, tr)),
       y_1_train |-> Column0(Take(dt.y_1, tr)),
       x_test |-> Take(features, te), x_test_columns |-> columns_of(d),
       t_test |-> Column0(Take(dt.t, te)),
       y_test |-> Column0(Take(dt.y, te)),
       e_test |-> Column0(Take(dt.e, te)),
       y_0_test |-> Column0(Take(dt.y_0, te)),
       y_1_test |-> Column0(Take(dt.y_1, te)),
       true_ate |-> true_ate_of(dt.y_0, dt.y_1),
       ind_train |-> tr, ind_test |-> te]

\* the draws of one permutation
split_draws(n) == n - 1

\* get_train_test_data from stream state s: get_u, get_theta, get_data, then
\* the split, each drawing where the one before stopped
get_train_test_data(s, n, d, use_t, k) ==
  LET uu == get_u(s, n, d)
      th == get_theta(At(s, uu.draws), d, use_t, k)
      dt == get_data(At(s, uu.draws + th.draws), uu, th, n, d, use_t, k)
      used == uu.draws + th.draws + dt.draws
  IN  [out |-> split_tables(At(s, used), dt, n, d),
       draws |-> used + split_draws(n)]

RECURSIVE LabelIndex(_, _, _)
\* the positions, in order, of the columns whose group is in groups
LabelIndex(cols, groups, k) ==
  IF k > Len(cols) THEN <<>>
  ELSE (IF cols[k][1] \in groups THEN <<k>> ELSE <<>>)
       \o LabelIndex(cols, groups, k + 1)

\* x[[g1, g2, ...]]: the sub-matrix of the columns labelled with the groups
SelectGroups(x, cols, groups) ==
  LET ix == LabelIndex(cols, groups, 1)
  IN  [row \in 1..Rows(x) |-> [j \in 1..Len(ix) |-> x[row][ix[j]]]]

---------------------------------------------------------------------------
(* External collaborators *)

\* RCoT, get_effect and get_irm_features are not part of the scripts: each
\* is a function of what it is handed, and any call of one may raise.
Digest(q) == SeqSum(q, Len(q)) % 7

collaborator_value(m, tb) ==
  CASE m = "pvalue_empty" -> Digest(tb.e_train \o tb.y_train \o tb.t_train)
    [] m = "pvalue_x3" ->
         Digest(tb.e_train \o tb.y_train \o tb.t_train
                \o Column0(SelectGroups(tb.x_train, tb.x_train_columns, {"x3"})))
    [] m = "pvalue_x2x3" ->
         Digest(tb.e_train \o tb.y_train \o tb.t_train
                \o Column0(SelectGroups(tb.x_train, tb.x_train_columns, {"x2", "x3"})))
    [] m = "effect_true" -> tb.true_ate
    [] m = "effect_oracle" ->
         Digest(tb.t_train \o tb.y_train \o tb.t_test
                \o Column0(SelectGroups(tb.x_train, tb.x_train_columns, {"x2"})))
    [] m = "effect_baseline" ->
         Digest(tb.t_train \o tb.y_train \o tb.t_test
                \o Column0(SelectGroups(tb.x_train, tb.x_train_columns,
                                        {"x1", "x2", "x3"})))
    [] OTHER ->
         Digest(tb.t_train \o tb.y_train \o tb.e_train \o tb.t_test
                \o Column0(SelectGroups(tb.x_train, tb.x_train_columns, {"x2", "x3"})))

\* effect_true[r,i] = true_ate calls no collaborator
calls_collaborator(m) == m # "effect_true"

---------------------------------------------------------------------------
(* Trial runner: main *)

Cells == (0..(number_repetitions - 1)) \X (1..Len(number_dimensions_list))

number_dimensions == number_dimensions_list[i]

\* np.zeros((number_repetitions, len(number_dimensions_list)))
zeros_matrix == [c \in Cells |-> 0]

Init ==
  /\ script \in Scripts
  /\ number_repetitions \in 1..MaxReps
  /\ number_observations \in 1..MaxObs
  /\ use_t_in_e \in {0, 1}
  /\ number_environments \in 1..MaxEnv
  /\ rng \in 0..MaxSeed
  /\ seed = rng
  /\ entry = rng
  /\ pc = "loop"
  /\ error = ""
  /\ r = 0
  /\ i = 1
  /\ w = 1
  /\ u = None
  /\ theta = None
  /\ data = None
  /\ tables = None
  /\ results = [m \in {ResultMatrices(script)[j] : j \in 1..Len(ResultMatrices(script))}
                  |-> zeros_matrix]
  /\ files = {}
  /\ visited = <<>>
  /\ log = [c \in Cells |->
              [built |-> 0, latents |-> 0, coefficients |-> 0, writes |-> <<>>]]
  /\ calls = {}

args_unchanged ==
  UNCHANGED <<script, number_repetitions, number_observations, use_t_in_e,
              number_environments, seed>>

no_error == UNCHANGED error

\* the stream put back to its first state at every call
EnterCellReseeded ==
  /\ pc = "loop"
  /\ pc' = "get_u"
  /\ rng' = seed
  /\ entry' = seed
  /\ visited' = Append(visited, <<r, i>>)
  /\ log' = [log EXCEPT ![<<r, i>>].built = @ + 1]
  /\ UNCHANGED <<r, i, w, u, theta, data, tables, results, files, calls>>
  /\ args_unchanged
  /\ no_error

\* the loop heads and the call of get_train_test_data for cell (r, i)
EnterCell ==
  /\ pc = "loop"
  /\ pc' = "get_u"
  /\ entry' = rng
  /\ visited' = Append(visited, <<r, i>>)
  /\ log' = [log EXCEPT ![<<r, i>>].built = @ + 1]
  /\ UNCHANGED <<rng, r, i, w, u, theta, data, tables, results, files, calls>>
  /\ args_unchanged
  /\ no_error

GetU ==
  /\ pc = "get_u"
  /\ LET v == get_u(rng, number_observations, number_dimensions)
     IN  /\ u' = [u1 |-> v.u1, u2 |-> v.u2, u3 |-> v.u3, u4 |-> v.u4]
         /\ rng' = At(rng, v.draws)
  /\ log' = [log EXCEPT ![<<r, i>>].latents = @ + 1]
  /\ pc' = "get_theta"
  /\ UNCHANGED <<r, i, w, theta, data, tables, results, files, entry, visited, calls>>
  /\ args_unchanged
  /\ no_error

GetTheta ==
  /\ pc = "get_theta"
  /\ LET v == get_theta(rng, number_dimensions, use_t_in_e, number_environments)
     IN  /\ theta' = [theta1 |-> v.theta1, theta2 |-> v.theta2,
                      theta3 |-> v.theta3, theta4 |-> v.theta4,
                      theta5 |-> v.theta5, theta6 |-> v.theta6]
         /\ rng' = At(rng, v.draws)
  /\ log' = [log EXCEPT ![<<r, i>>].coefficients = @ + 1]
  /\ pc' = "get_data"
  /\ UNCHANGED <<r, i, w, u, data, tables, results, files, entry, visited, calls>>
  /\ args_unchanged
  /\ no_error

GetData ==
  /\ pc = "get_data"
  /\ get_data_ok(u, theta, number_observations, number_dimensions,
                 use_t_in_e, number_environments)
  /\ LET v == get_data(rng, u, theta, number_observations, number_dimensions,
                       use_t_in_e, number_environments)
     IN  /\ data' = [x1 |-> v.x1, x2 |-> v.x2, x3 |-> v.x3, t |-> v.t,
                     e |-> v.e, y |-> v.y, y_0 |-> v.y_0, y_1 |-> v.y_1]
         /\ rng' = At(rng, v.draws)
  /\ pc' = "split"
  /\ UNCHANGED <<r, i, w, u, theta, tables, results, files, entry, visited, log, calls>>
  /\ args_unchanged
  /\ no_error

\* a ValueError of np.dot or np.random.choice leaves get_data, then main
GetDataRaises ==
  /\ pc = "get_data"
  /\ ~get_data_ok(u, theta, number_observations, number_dimensions,
                  use_t_in_e, number_environments)
  /\ pc' = "raised"
  /\ error' = "get_data"
  /\ UNCHANGED <<rng, r, i, w, u, theta, data, tables, results, files, entry,
                 visited, log, calls>>
  /\ args_unchanged

\* true_ate, train_test_split and the labelled tables; the call returns
Split ==
  /\ pc = "split"
  /\ split_ok(number_observations)
  /\ tables' = split_tables(rng, data, number_observations, number_dimensions)
  /\ rng' = At(rng, split_draws(number_observations))
  /\ calls' = calls \cup
       {[cell |-> <<r, i>>, entry |-> entry, n |-> number_observations,
         d |-> number_dimensions, use_t |-> use_t_in_e,
         k |-> number_environments, out |-> tables']}
  /\ pc' = "record"
  /\ w' = 1
  /\ UNCHANGED <<r, i, u, theta, data, results, files, entry, visited, log>>
  /\ args_unchanged
  /\ no_error

SplitRaises ==
  /\ pc = "split"
  /\ ~split_ok(number_observations)
  /\ pc' = "raised"
  /\ error' = "train_test_split"
  /\ UNCHANGED <<rng, r, i, w, u, theta, data, tables, results, files, entry,
                 visited, log, calls>>
  /\ args_unchanged

\* the two loops nested the other way round: dimensions outside
Advance_dimension_major ==
  IF r + 1 < number_repetitions
  THEN /\ i' = i /\ r' = r + 1 /\ pc' = "loop"
  ELSE IF i < Len(number_dimensions_list)
       THEN /\ i' = i + 1 /\ r' = 0 /\ pc' = "loop"
       ELSE /\ i' = i /\ r' = r /\ pc' = "save"

\* the next (r, i) of the two nested loops, or the code after them
Advance ==
  IF i < Len(number_dimensions_list)
  THEN /\ i' = i + 1 /\ r' = r /\ pc' = "loop"
  ELSE IF r + 1 < number_repetitions
       THEN /\ i' = 1 /\ r' = r + 1 /\ pc' = "loop"
       ELSE /\ i' = i /\ r' = r /\ pc' = "save"

\* one assignment  matrix[r,i] = value  of the cell body
RecordResult ==
  /\ pc = "record"
  /\ LET m == ResultMatrices(script)[w]
     IN  /\ results' = [results EXCEPT ![m][<<r, i>>] = collaborator_value(m, tables)]
         /\ log' = [log EXCEPT ![<<r, i>>].writes = Append(@, m)]
  /\ IF w < Len(ResultMatrices(script))
     THEN /\ w' = w + 1
          /\ UNCHANGED <<r, i, pc>>
     ELSE /\ w' = 1
          /\ Advance
  /\ UNCHANGED <<rng, u, theta, data, tables, files, entry, visited, calls>>
  /\ args_unchanged
  /\ no_error

\* the exception caught in the cell body and the loop continued
CollaboratorRaisesCaught ==
  /\ pc = "record"
  /\ calls_collaborator(ResultMatrices(script)[w])
  /\ error' = "collaborator"
  /\ w' = 1
  /\ Advance
  /\ UNCHANGED <<rng, u, theta, data, tables, results, files, entry,
                 visited, log, calls>>
  /\ args_unchanged

\* the collaborator called for the next assignment raises; main has no handler
CollaboratorRaises ==
  /\ pc = "record"
  /\ calls_collaborator(ResultMatrices(script)[w])
  /\ pc' = "raised"
  /\ error' = "collaborator"
  /\ UNCHANGED <<rng, r, i, w, u, theta, data, tables, results, files, entry,
                 visited, log, calls>>
  /\ args_unchanged

\* the np.savetxt calls after the loops
SaveResults ==
  /\ pc = "save"
  /\ files' = SavedMatrices(script)
  /\ pc' = "done"
  /\ UNCHANGED <<rng, r, i, w, u, theta, data, tables, results, entry, visited,
                 log, calls>>
  /\ args_unchanged
  /\ no_error

Next ==
  \/ EnterCell
  \/ GetU
  \/ GetTheta
  \/ GetData
  \/ GetDataRaises
  \/ Split
  \/ SplitRaises
  \/ RecordResult
  \/ CollaboratorRaises
  \/ SaveResults

Spec == Init /\ [][Next]_vars

---------------------------------------------------------------------------
(* Claims *)

\* get_data has returned for the current cell and u, theta are that cell's
Simulated == pc \in {"split", "record"}

\* the rows of the current dataset
DataRows == 1..number_observations

\* C1: whenever get_data returns, every row's environment label e[i] is an
\* integer in 0..k-1, k = number_environments, for either value of use_t_in_e.
C1_EnvLabelsInRange ==
  Simulated =>
    /\ Rows(data.e) = number_observations
    /\ \A row \in DataRows :
         data.e[row][1] \in 0..(number_environments - 1)

\* C1 witness: a returned dataset built with t in the softmax input whose
\* labels include both the first and the last environment
C1_Witness ==
  /\ Simulated
  /\ use_t_in_e = 1
  /\ \E a, b \in DataRows :
       /\ data.e[a][1] = 0
       /\ data.e[b][1] = number_environments - 1

\* C2: for every well-formed input (n >= 1, d >= 1, use_t_in_e in {0,1},
\* k >= 1) get_theta followed by get_data raises no error.
C2_GetDataNeverRaises == error # "get_data"

\* C3: in every get_data output, y_1[i] - y_0[i] equals theta4's treatment
\* coefficient (its last entry) for every row, whatever the noise, x2, u4, t.
C3_EffectIsTreatmentCoefficient ==
  Simulated =>
    \A row \in DataRows :
      data.y_1[row][1] - data.y_0[row][1]
        = theta.theta4[Rows(theta.theta4)][1]

\* C3 witness: a returned dataset with treated and untreated rows whose
\* untreated outcomes differ
C3_Witness ==
  /\ Simulated
  /\ \E a, b \in DataRows :
       /\ data.t[a][1] = 1
       /\ data.t[b][1] = 0
       /\ data.y_0[a][1] # data.y_0[b][1]
       /\ data.y[a][1] = data.y_1[a][1]

\* get_train_test_data has returned for the current cell
Built == pc = "record"

\* the set of the entries of a sequence
Range(q) == {q[j] : j \in 1..Len(q)}

\* C4: the split is a partition of the n generated rows; one row assignment
\* serves all six tables; the test part has ceil(0.2 n) rows and the two
\* parts n together; the sum of y_1 - y_0 over train plus test is the sum
\* over the generated rows.
C4_SplitIsPartition ==
  Built =>
    LET tr == tables.ind_train
        te == tables.ind_test
        features == ConcatCols(ConcatCols(data.x1, data.x2), data.x3)
    IN  /\ Range(tr) \cup Range(te) = DataRows
        /\ Range(tr) \cap Range(te) = {}
        /\ Cardinality(Range(tr)) = Len(tr)
        /\ Cardinality(Range(te)) = Len(te)
        /\ Len(tr) + Len(te) = number_observations
        /\ 5 * Len(te) >= number_observations
        /\ 5 * (Len(te) - 1) < number_observations
        /\ Len(tables.x_train) = Len(tr) /\ Len(tables.x_test) = Len(te)
        /\ Len(tables.t_train) = Len(tr) /\ Len(tables.t_test) = Len(te)
        /\ Len(tables.y_train) = Len(tr) /\ Len(tables.y_test) = Len(te)
        /\ Len(tables.e_train) = Len(tr) /\ Len(tables.e_test) = Len(te)
        /\ Len(tables.y_0_train) = Len(tr) /\ Len(tables.y_0_test) = Len(te)
        /\ Len(tables.y_1_train) = Len(tr) /\ Len(tables.y_1_test) = Len(te)
        /\ \A j \in 1..Len(tr) :
             /\ tables.x_train[j] = features[tr[j]]
             /\ tables.t_train[j] = data.t[tr[j]][1]
             /\ tables.y_train[j] = data.y[tr[j]][1]
             /\ tables.e_train[j] = data.e[tr[j]][1]
             /\ tables.y_0_train[j] = data.y_0[tr[j]][1]
             /\ tables.y_1_train[j] = data.y_1[tr[j]][1]
        /\ \A j \in 1..Len(te) :
             /\ tables.x_test[j] = features[te[j]]
             /\ tables.t_test[j] = data.t[te[j]][1]
             /\ tables.y_test[j] = data.y[te[j]][1]
             /\ tables.e_test[j] = data.e[te[j]][1]
             /\ tables.y_0_test[j] = data.y_0[te[j]][1]
             /\ tables.y_1_test[j] = data.y_1[te[j]][1]
        /\ (SeqSum(tables.y_1_train, Len(tr)) - SeqSum(tables.y_0_train, Len(tr)))
           + (SeqSum(tables.y_1_test, Len(te)) - SeqSum(tables.y_0_test, Len(te)))
           = ColSum(MatSub(data.y_1, data.y_0), 1, number_observations)

\* C4 witness: six rows split four to two by a permutation that moves rows,
\* with outcomes that differ between rows
C4_Witness ==
  /\ Built
  /\ number_observations = 6
  /\ Len(tables.ind_test) = 2
  /\ tables.ind_test # <<1, 2>>
  /\ tables.ind_train # <<3, 4, 5, 6>>
  /\ tables.y_train[1] # tables.y_train[2]

\* C5: in the train and in the test table, group x1 is exactly column 0 (the
\* x1 values), group x2 exactly columns 1..d (x2, in order) and group x3
\* exactly columns d+1..2d (x3, in order); selecting a group returns that
\* sub-matrix and no column of another group.
C5_GroupLabelsSelectBlocks ==
  Built =>
    LET d == number_dimensions IN
    /\ Len(tables.x_train_columns) = 2 * d + 1
    /\ Len(tables.x_test_columns) = 2 * d + 1
    /\ SelectGroups(tables.x_train, tables.x_train_columns, {"x1"})
         = Take(data.x1, tables.ind_train)
    /\ SelectGroups(tables.x_train, tables.x_train_columns, {"x2"})
         = Take(data.x2, tables.ind_train)
    /\ SelectGroups(tables.x_train, tables.x_train_columns, {"x3"})
         = Take(data.x3, tables.ind_train)
    /\ SelectGroups(tables.x_test, tables.x_test_columns, {"x1"})
         = Take(data.x1, tables.ind_test)
    /\ SelectGroups(tables.x_test, tables.x_test_columns, {"x2"})
         = Take(data.x2, tables.ind_test)
    /\ SelectGroups(tables.x_test, tables.x_test_columns, {"x3"})
         = Take(data.x3, tables.ind_test)
    /\ LabelIndex(tables.x_train_columns, {"x1"}, 1) = <<1>>
    /\ LabelIndex(tables.x_train_columns, {"x2"}, 1) = [j \in 1..d |-> 1 + j]
    /\ LabelIndex(tables.x_train_columns, {"x3"}, 1) = [j \in 1..d |-> 1 + d + j]

\* C5 witness: a built dataset of dimension 2 whose two x2 columns differ and
\* whose last x2 column differs from the first x3 column
C5_Witness ==
  /\ Built
  /\ number_dimensions = 2
  /\ tables.x_train[1][2] # tables.x_train[1][3]
  /\ tables.x_train[1][3] # tables.x_train[1][4]
  /\ SelectGroups(tables.x_train, tables.x_train_columns, {"x2"})[1]
       = <<tables.x_train[1][2], tables.x_train[1][3]>>

\* the cell visited j-th when the repetitions are the outer loop
RowMajor(j) ==
  <<(j - 1) \div Len(number_dimensions_list),
    ((j - 1) % Len(number_dimensions_list)) + 1>>

\* a cell whose body has run to its last assignment
Complete(c) ==
  /\ log[c].built = 1
  /\ log[c].latents = 1
  /\ log[c].coefficients = 1
  /\ log[c].writes = ResultMatrices(script)

\* C6: main visits the cells in row-major order (repetitions outside, the
\* grid inside); each visited cell has one get_train_test_data call with one
\* draw of latents and one of coefficients; each result matrix is assigned
\* once per cell, at (r, i); at normal termination every cell of every
\* result matrix has been written.
C6_RowMajorOnceEach ==
  /\ Len(visited) <= number_repetitions * Len(number_dimensions_list)
  /\ \A j \in 1..Len(visited) : visited[j] = RowMajor(j)
  /\ \A j \in 1..(Len(visited) - 1) : Complete(visited[j])
  /\ \A c \in Cells :
       /\ log[c].built = (IF c \in Range(visited) THEN 1 ELSE 0)
       /\ log[c].latents <= log[c].built
       /\ log[c].coefficients <= log[c].latents
       /\ Len(log[c].writes) <= Len(ResultMatrices(script))
       /\ log[c].writes = SubSeq(ResultMatrices(script), 1, Len(log[c].writes))
       /\ log[c].writes # <<>> => log[c].coefficients = 1
       /\ \A m \in Range(ResultMatrices(script)) :
            m \notin Range(log[c].writes) => results[m][c] = 0
  /\ pc \in {"save", "done"} => \A c \in Cells : Complete(c)

\* C6 witness: a run of two repetitions that ended normally, all four cells
\* visited
C6_Witness ==
  /\ pc = "done"
  /\ number_repetitions = 2
  /\ Len(visited) = 2 * Len(number_dimensions_list)
  /\ visited[2] = <<0, 2>>

\* C7: after all cells are filled, every result matrix main allocates and
\* fills is written to a file of its own, in both scripts.
C7_EveryMatrixSaved ==
  pc = "done" => files = Range(ResultMatrices(script))

\* C8: if the dataset build or a collaborator raises at cell (r, i), the run
\* ends there: nothing handles the exception, no later cell is computed, and
\* no file is written (files are written only after the last cell).
C8_RaiseAbortsRun ==
  /\ error # "" =>
       /\ pc = "raised"
       /\ ~ENABLED Next
       /\ files = {}
       /\ visited # <<>>
       /\ visited[Len(visited)] = <<r, i>>
       /\ \A c \in Cells \ Range(visited) :
            log[c].built = 0 /\ log[c].writes = <<>>
  /\ files # {} => error = "" /\ \A c \in Cells : Complete(c)

\* C8 witness: a collaborator raises in the second repetition, after the
\* first assignment of the cell and after the whole first repetition
C8_Witness ==
  /\ error = "collaborator"
  /\ r = 1
  /\ w = 2
  /\ Complete(<<0, 1>>)
  /\ files = {}

\* the draws of one get_train_test_data call
call_draws(n, d, use_t) ==
  get_u_draws(n, d) + get_theta_draws(d, use_t) + get_data_draws(n, d)
  + split_draws(n)

RECURSIVE DrawsBefore(_)
\* the draws of the cells visited before the j-th
DrawsBefore(j) ==
  IF j <= 1 THEN 0
  ELSE DrawsBefore(j - 1)
       + call_draws(number_observations,
                    number_dimensions_list[RowMajor(j - 1)[2]], use_t_in_e)

\* the call that has just returned
JustBuilt == {c \in calls : pc = "record" /\ w = 1 /\ c.cell = <<r, i>>}

\* C9 as stated: the dataset of a cell does not depend on which or how many
\* cells ran before it, so it is the dataset the cell yields when it runs
\* first, from the stream's first state.
C9_OrderIndependent ==
  \A c \in JustBuilt :
    c.out = get_train_test_data(seed, c.n, c.d, c.use_t, c.k).out

\* C9 amended: besides the result matrices the position of the global random
\* stream is carried from cell to cell; the dataset of a cell is a function
\* of its arguments and of the stream state at its entry, which is the first
\* state advanced by the draws of all cells before it.
C9_DependsOnStreamPosition ==
  \A c \in JustBuilt :
    /\ c.entry = At(seed, DrawsBefore(Len(visited)))
    /\ c.out = get_train_test_data(c.entry, c.n, c.d, c.use_t, c.k).out

\* C9 witness: two cells with the same arguments, entered in different
\* stream states, with different datasets
C9_Witness ==
  \E a, b \in calls :
    /\ a.cell # b.cell
    /\ a.n = b.n /\ a.d = b.d /\ a.use_t = b.use_t /\ a.k = b.k
    /\ a.entry # b.entry
    /\ a.out # b.out
    /\ a \in JustBuilt \/ b \in JustBuilt

\* C10: two get_train_test_data calls that start in the same stream state
\* with the same arguments return the same twelve tables and true_ate.
C10_SameStreamSameOutput ==
  \A a, b \in calls :
    (/\ a.entry = b.entry
     /\ a.n = b.n /\ a.d = b.d /\ a.use_t = b.use_t /\ a.k = b.k)
    => a.out = b.out

\* C10 witness: two different cells entered in the same stream state with
\* the same arguments
C10_Witness ==
  \E a, b \in calls :
    /\ a.cell # b.cell
    /\ a.entry = b.entry
    /\ a.n = b.n /\ a.d = b.d /\ a.use_t = b.use_t /\ a.k = b.k

\* the observed outcome is the potential outcome of the treatment received
Consistent(t, y, y_0, y_1) ==
  /\ t \in {0, 1}
  /\ t = 1 => y = y_1
  /\ t = 0 => y = y_0

\* C11: in every get_data output t[i] is 0 or 1 and y[i] = y_1[i] when
\* t[i] = 1, y[i] = y_0[i] when t[i] = 0, for every row; the same holds row
\* by row in the train and test tables after the split.
C11_ObservedIsPotentialOutcome ==
  /\ Simulated =>
       \A row \in DataRows :
         Consistent(data.t[row][1], data.y[row][1],
                    data.y_0[row][1], data.y_1[row][1])
  /\ Built =>
       /\ \A j \in 1..Len(tables.t_train) :
            Consistent(tables.t_train[j], tables.y_train[j],
                       tables.y_0_train[j], tables.y_1_train[j])
       /\ \A j \in 1..Len(tables.t_test) :
            Consistent(tables.t_test[j], tables.y_test[j],
                       tables.y_0_test[j], tables.y_1_test[j])

\* C11 witness: a built dataset whose train table holds a treated and an
\* untreated row and whose test table holds a treated row, the two potential
\* outcomes differing in each
C11_Witness ==
  /\ Built
  /\ \E a, b \in 1..Len(tables.t_train) :
       /\ tables.t_train[a] = 1
       /\ tables.y_train[a] = tables.y_1_train[a]
       /\ tables.y_train[a] # tables.y_0_train[a]
       /\ tables.t_train[b] = 0
       /\ tables.y_train[b] = tables.y_0_train[b]
       /\ tables.y_train[b] # tables.y_1_train[b]
  /\ \E c \in 1..Len(tables.t_test) :
       /\ tables.t_test[c] = 1
       /\ tables.y_test[c] # tables.y_0_test[c]

===========================================================================
